---- MODULE Spec2Model ----
(***************************************************************************)
(* A model of the two round-robin load balancers of the repository:       *)
(*   - the flat shape (lb-notg/lb.go): one pool, one persistent index;     *)
(*   - the multi-group shape (the second main package): target groups      *)
(*     bound to exact request paths.                                       *)
(* Both share isServerHealthy, the retrying health probe, and both run     *)
(* ServeHTTP under the load balancer's mutex.  Every connection of the     *)
(* HTTP listener is a goroutine that serves its requests one by one.       *)
(***************************************************************************)
EXTENDS Integers, Sequences, FiniteSets, TLC

(* ---------------------------------------------------------------- bounds *)

\* Flat shape: the longest configured server list.
MaxServers == 2
\* Flat shape: requests accepted by the listener in one run.
MaxRequests == 3
\* Goroutines (connections) that serve requests concurrently.
NumConns == 2
\* Multi-group shape: the longest configured list of target groups.
MaxGroups == 2
\* Multi-group shape: the longest server list of a target group.
MaxGroupServers == 2
\* Multi-group shape: requests accepted by the listener in one run.
MaxGroupRequests == 2

(* ------------------------------------------------------------- constants *)

\* maxRetries := 3
maxRetries == 3
\* http.StatusOK
StatusOK == 200
\* http.StatusServiceUnavailable
StatusServiceUnavailable == 503
\* the message handed to http.Error, which writes it as the body
ErrorBody == "No healthy backend servers available"

\* The hosts a configuration may name, in configuration order.
Hosts == << "localhost:8081", "localhost:8082", "localhost:8083",
            "localhost:8084", "localhost:8085", "localhost:8086",
            "localhost:8087", "localhost:8088", "localhost:8089",
            "localhost:8090", "localhost:8091", "localhost:8092" >>

\* Paths, as their segments: /app1 and /app1/x, one a prefix of the other.
\* Requests ask for them and target groups are bound to them.
Paths == { << "app1" >>, << "app1", "x" >> }

\* What the health endpoint of a backend does: always answers 200, always
\* fails (a transport error or another status), or either from one GET to
\* the next.
HealthKinds == { "up", "down", "flaky" }

Conns == 1 .. NumConns

VARIABLES
    shape,         \* which of the two programs runs: "flat" or "groups"
    servers,       \* LoadBalancer.servers (flat shape)
    index,         \* LoadBalancer.index (flat shape)
    targetGroups,  \* LoadBalancer.targetGroups (multi-group shape)
    health,        \* the environment: host -> HealthKinds
    mu,            \* LoadBalancer.mu: 0 when free, else the holder
    pc,            \* where each connection's goroutine stands
    i,             \* ServeHTTP's loop variable
    server,        \* ServeHTTP's local "server"
    retry,         \* isServerHealthy's loop variable
    ok,            \* isServerHealthy's return value
    urlPath,       \* r.URL.Path
    reqPath,       \* history: r.URL.Path as the request arrived
    start,         \* history: index when the request took the lock
    attempts,      \* history: client.Get results of the current probe
    waits,         \* history: time.Sleep calls of the current probe
    probed,        \* history: isServerHealthy calls of the current request
    fwd,           \* history: proxy.ServeHTTP calls of the current request
    resp,          \* history: http.Error calls of the current request
    log,           \* history: the finished requests, in lock order
    nreq           \* requests accepted so far

vars == << shape, servers, index, targetGroups, health, mu, pc, i, server,
           retry, ok, urlPath, reqPath, start, attempts, waits, probed, fwd,
           resp, log, nreq >>

\* What is fixed once main has built the load balancer, and the environment.
config == << shape, servers, targetGroups, health >>

(* ------------------------------------------------------------ data model *)

\* type Server struct { URL; healthCheckPath }
Server(url, path) == [ URL |-> url, healthCheckPath |-> path ]

\* A nil *Server.
NilServer == Server("", "")

\* NewLoadBalancer(serverURLs, healthCheckPath): every server gets the one
\* health check path; index starts at 0.
NewLoadBalancer(serverURLs, healthCheckPath) ==
    [ servers |-> [ k \in 1 .. Len(serverURLs) |->
                        Server(serverURLs[k], healthCheckPath) ],
      index   |-> 0 ]

\* Faulty variants of the index advance: none at all, and by two.
NextIndexStuck(idx, n) == idx
NextIndexSkip(idx, n) == (idx + 2) % n

\* lb.index = (lb.index + 1) % len(lb.servers)
NextIndex(idx, n) == (idx + 1) % n

\* Faulty variant of the loop condition: twice round the pool.
LoopContinuesTwice(iv, n) == iv < 2 * n

\* Faulty variant of the loop condition: one iteration short.
LoopContinuesShort(iv, n) == iv < n - 1

\* for i := 0; i < len(lb.servers); i++: the loop goes on.
LoopContinues(iv, n) == iv < n

\* Faulty variant: the host is put behind the request's path.
SprintfHostLast(host, path) == path \o << host >>

\* fmt.Sprintf("/%s%s", server.URL.Host, r.URL.Path), a path as its segments.
Sprintf(host, path) == << host >> \o path

\* One client.Get: a transport error, or a response with a status.
GetResult(err, status) == [ err |-> err, status |-> status ]

\* What a GET to a backend of the given kind can come back with.
GetResults(kind) ==
    LET good == { GetResult(FALSE, StatusOK) }
        bad  == { GetResult(TRUE, 0), GetResult(FALSE, 500) }
    IN  CASE kind = "up"    -> good
          [] kind = "down"  -> bad
          [] OTHER          -> good \cup bad

\* Faulty variant: the response's status is not looked at.
AttemptFailedOnErrorOnly(res) == res.err

\* err != nil || resp.StatusCode != http.StatusOK
AttemptFailed(res) == res.err \/ res.status # StatusOK

\* Faulty variant: the empty health check path is probed like any other.
NoHealthCheckNever(srv) == FALSE

\* if server.healthCheckPath == "": no health check is asked for.
NoHealthCheck(srv) == srv.healthCheckPath = ""

\* The backend at url was probed in an earlier request and not forwarded to:
\* it failed that probe.
FailedBefore(url) ==
    \E k \in 1 .. Len(log) :
        /\ log[k].target # url
        /\ \E j \in 1 .. Len(log[k].probed) : log[k].probed[j] = url

\* Faulty variant: a failed probe is remembered, and a backend that failed
\* one in an earlier request is given no attempt.
RetryContinuesUnlessFailedBefore(r) ==
    /\ r < maxRetries
    /\ ~\E c \in Conns : pc[c] = "get" /\ FailedBefore(server[c].URL)

\* Faulty variant of the retry condition: one attempt too many.
RetryContinuesInclusive(r) == r <= maxRetries

\* for retry := 0; retry < maxRetries; retry++: the retry loop goes on.
RetryContinues(r) == r < maxRetries

\* Faulty variant: ServeHTTP without the lock.
MutexFreeAlways == TRUE

\* lb.mu.Lock() returns only when no goroutine holds the mutex.
MutexFree == mu = 0

(* -------------------------------------------------------- initial states *)

InitLocals ==
    /\ i = [ c \in Conns |-> 0 ]
    /\ server = [ c \in Conns |-> NilServer ]
    /\ retry = [ c \in Conns |-> 0 ]
    /\ ok = [ c \in Conns |-> FALSE ]
    /\ urlPath = [ c \in Conns |-> << >> ]
    /\ reqPath = [ c \in Conns |-> << >> ]
    /\ start = [ c \in Conns |-> 0 ]
    /\ attempts = [ c \in Conns |-> << >> ]
    /\ waits = [ c \in Conns |-> 0 ]
    /\ probed = [ c \in Conns |-> << >> ]
    /\ fwd = [ c \in Conns |-> << >> ]
    /\ resp = [ c \in Conns |-> << >> ]

InitCommon ==
    /\ mu = 0
    /\ pc = [ c \in Conns |-> "idle" ]
    /\ log = << >>
    /\ nreq = 0
    /\ InitLocals

\* The flat shape after main: NewLoadBalancer over a list of 0..MaxServers
\* URLs with one health check path, empty or not.
InitFlat ==
    /\ shape = "flat"
    /\ \E n \in 0 .. MaxServers, path \in { "", "/health" } :
         LET lb == NewLoadBalancer(SubSeq(Hosts, 1, n), path)
         IN  /\ servers = lb.servers
             /\ index = lb.index
             /\ health \in [ { Hosts[k] : k \in 1 .. n } -> HealthKinds ]
    /\ targetGroups = << >>
    /\ InitCommon

(* --------------------------------------------------- the request's steps *)

\* The listener hands a request for one of the paths to a connection's
\* goroutine, as long as it accepts requests.
Accept(c, paths, limit) ==
    /\ pc[c] = "idle"
    /\ nreq < limit
    /\ \E p \in paths :
         /\ urlPath' = [ urlPath EXCEPT ![c] = p ]
         /\ reqPath' = [ reqPath EXCEPT ![c] = p ]
    /\ nreq' = nreq + 1
    /\ pc' = [ pc EXCEPT ![c] = "lock" ]
    /\ UNCHANGED << config, index, mu, i, server, retry,
                    ok, start, attempts, waits, probed, fwd, resp, log >>

\* lb.mu.Lock(), and the loop variable's initialisation.
Lock(c) ==
    /\ pc[c] = "lock"
    /\ MutexFree
    /\ mu' = c
    /\ i' = [ i EXCEPT ![c] = 0 ]
    /\ start' = [ start EXCEPT ![c] = index ]
    /\ pc' = [ pc EXCEPT ![c] = "loop" ]
    /\ UNCHANGED << config, index, server, retry, ok,
                    urlPath, reqPath, attempts, waits, probed, fwd, resp, log,
                    nreq >>

\* Flat shape, the head of the loop: for i < len(lb.servers), read
\* server := lb.servers[lb.index]; past the last iteration fall out of the
\* loop to http.Error.
Select(c) ==
    /\ shape = "flat"
    /\ pc[c] = "loop"
    /\ IF LoopContinues(i[c], Len(servers))
       THEN /\ server' = [ server EXCEPT ![c] = servers[index + 1] ]
            /\ pc' = [ pc EXCEPT ![c] = "advance" ]
       ELSE /\ pc' = [ pc EXCEPT ![c] = "error" ]
            /\ UNCHANGED server
    /\ UNCHANGED << config, index, mu, i, retry, ok, urlPath, reqPath, start,
                    attempts, waits, probed, fwd, resp, log, nreq >>

\* Flat shape: lb.index = (lb.index + 1) % len(lb.servers), a read and a
\* write of the shared index, and then the call of isServerHealthy.
Advance(c) ==
    /\ shape = "flat"
    /\ pc[c] = "advance"
    /\ index' = NextIndex(index, Len(servers))
    /\ pc' = [ pc EXCEPT ![c] = "health" ]
    /\ UNCHANGED << config, mu, i, server, retry, ok, urlPath, reqPath, start,
                    attempts, waits, probed, fwd, resp, log, nreq >>

\* isServerHealthy, its entry: an empty health check path returns true at
\* once; otherwise the retry loop starts at retry = 0.
HealthEntry(c) ==
    /\ pc[c] = "health"
    /\ probed' = [ probed EXCEPT ![c] =
                     Append(@, [ URL |-> server[c].URL, at |-> i[c],
                                 verdict |-> "pending" ]) ]
    /\ attempts' = [ attempts EXCEPT ![c] = << >> ]
    /\ waits' = [ waits EXCEPT ![c] = 0 ]
    /\ IF NoHealthCheck(server[c])
       THEN /\ ok' = [ ok EXCEPT ![c] = TRUE ]
            /\ pc' = [ pc EXCEPT ![c] = "ret" ]
            /\ UNCHANGED retry
       ELSE /\ retry' = [ retry EXCEPT ![c] = 0 ]
            /\ pc' = [ pc EXCEPT ![c] = "get" ]
            /\ UNCHANGED ok
    /\ UNCHANGED << config, index, mu, i, server,
                    urlPath, reqPath, start, fwd, resp, log, nreq >>

\* isServerHealthy, the head of the retry loop: while retry < maxRetries one
\* client.Get; success returns true, failure goes to the sleep; past the last
\* retry the function returns false.
Get(c) ==
    /\ pc[c] = "get"
    /\ IF RetryContinues(retry[c])
       THEN \E res \in GetResults(health[server[c].URL]) :
                 /\ attempts' = [ attempts EXCEPT ![c] = Append(@, res) ]
                 /\ IF AttemptFailed(res)
                    THEN /\ pc' = [ pc EXCEPT ![c] = "sleep" ]
                         /\ UNCHANGED ok
                    ELSE /\ ok' = [ ok EXCEPT ![c] = TRUE ]
                         /\ pc' = [ pc EXCEPT ![c] = "ret" ]
       ELSE /\ ok' = [ ok EXCEPT ![c] = FALSE ]
            /\ pc' = [ pc EXCEPT ![c] = "ret" ]
            /\ UNCHANGED attempts
    /\ UNCHANGED << config, index, mu, i, server, retry,
                    urlPath, reqPath, start, waits, probed, fwd, resp, log,
                    nreq >>

\* isServerHealthy, a failed attempt: time.Sleep(time.Second); continue.
Sleep(c) ==
    /\ pc[c] = "sleep"
    /\ waits' = [ waits EXCEPT ![c] = @ + 1 ]
    /\ retry' = [ retry EXCEPT ![c] = @ + 1 ]
    /\ pc' = [ pc EXCEPT ![c] = "get" ]
    /\ UNCHANGED << config, index, mu, i, server, ok,
                    urlPath, reqPath, start, attempts, probed, fwd, resp, log,
                    nreq >>

\* The probe's verdict, recorded in the request's history.
Verdict(c) ==
    [ probed EXCEPT ![c][Len(probed[c])].verdict =
        IF ok[c] THEN "healthy" ELSE "unhealthy" ]

\* Flat shape, isServerHealthy has returned: a healthy server gets the
\* request, its path rewritten; an unhealthy one ends the iteration (i++).
Return(c) ==
    /\ shape = "flat"
    /\ pc[c] = "ret"
    /\ probed' = Verdict(c)
    /\ IF ok[c]
       THEN /\ urlPath' = [ urlPath EXCEPT ![c] = Sprintf(server[c].URL, @) ]
            /\ pc' = [ pc EXCEPT ![c] = "forward" ]
            /\ UNCHANGED i
       ELSE /\ i' = [ i EXCEPT ![c] = @ + 1 ]
            /\ pc' = [ pc EXCEPT ![c] = "loop" ]
            /\ UNCHANGED urlPath
    /\ UNCHANGED << config, index, mu, server, retry,
                    ok, reqPath, start, attempts, waits, fwd, resp, log, nreq >>

\* Faulty variant: no return after proxy.ServeHTTP, the loop goes on.
AfterForwardLoop == "loop"

\* The return after proxy.ServeHTTP: the handler is left, and its deferred
\* Unlock runs.
AfterForward == "unlock"

\* proxy.ServeHTTP(w, r); return.  The backend may answer or drop the
\* connection: either way the handler returns.
Forward(c) ==
    /\ pc[c] = "forward"
    /\ \E result \in { "answered", "failed" } :
         fwd' = [ fwd EXCEPT ![c] =
                    Append(@, [ URL |-> server[c].URL, path |-> urlPath[c],
                                result |-> result ]) ]
    /\ pc' = [ pc EXCEPT ![c] = AfterForward ]
    /\ UNCHANGED << config, index, mu, i, server, retry,
                    ok, urlPath, reqPath, start, attempts, waits, probed, resp,
                    log, nreq >>

\* http.Error(w, "No healthy backend servers available", 503)
Error(c) ==
    /\ pc[c] = "error"
    /\ resp' = [ resp EXCEPT ![c] =
                   Append(@, [ status |-> StatusServiceUnavailable,
                               body |-> ErrorBody ]) ]
    /\ pc' = [ pc EXCEPT ![c] = "unlock" ]
    /\ UNCHANGED << config, index, mu, i, server, retry,
                    ok, urlPath, reqPath, start, attempts, waits, probed, fwd,
                    log, nreq >>

\* What the log keeps of a finished request.
Finished(c) ==
    [ start  |-> start[c],
      probed |-> [ k \in 1 .. Len(probed[c]) |-> probed[c][k].URL ],
      target |-> IF fwd[c] = << >> THEN "" ELSE fwd[c][1].URL,
      status |-> IF resp[c] = << >> THEN 0 ELSE resp[c][1].status ]

\* Faulty variant: Unlock is called on the forwarding path only, not
\* deferred, so the return after http.Error leaves the mutex held.
HolderAfterError(c) == IF resp[c] # << >> THEN c ELSE 0

\* defer lb.mu.Unlock() frees the mutex on every return of the handler.
HolderAfterReturn(c) == 0

\* defer lb.mu.Unlock(): the handler returns and its locals are gone; the
\* log gets the entry.
Release(c, entry) ==
    /\ pc[c] = "unlock"
    /\ mu' = HolderAfterReturn(c)
    /\ log' = Append(log, entry)
    /\ pc' = [ pc EXCEPT ![c] = "idle" ]
    /\ i' = [ i EXCEPT ![c] = 0 ]
    /\ server' = [ server EXCEPT ![c] = NilServer ]
    /\ retry' = [ retry EXCEPT ![c] = 0 ]
    /\ ok' = [ ok EXCEPT ![c] = FALSE ]
    /\ urlPath' = [ urlPath EXCEPT ![c] = << >> ]
    /\ reqPath' = [ reqPath EXCEPT ![c] = << >> ]
    /\ start' = [ start EXCEPT ![c] = 0 ]
    /\ attempts' = [ attempts EXCEPT ![c] = << >> ]
    /\ waits' = [ waits EXCEPT ![c] = 0 ]
    /\ probed' = [ probed EXCEPT ![c] = << >> ]
    /\ fwd' = [ fwd EXCEPT ![c] = << >> ]
    /\ resp' = [ resp EXCEPT ![c] = << >> ]
    /\ UNCHANGED << config, index, nreq >>

(* ------------------------------------------------------- the flat shape *)

Arrive(c) == shape = "flat" /\ Accept(c, Paths, MaxRequests)

Unlock(c) == shape = "flat" /\ Release(c, Finished(c))

NextFlat ==
    \E c \in Conns :
        \/ Arrive(c)
        \/ Lock(c)
        \/ Select(c)
        \/ Advance(c)
        \/ HealthEntry(c)
        \/ Get(c)
        \/ Sleep(c)
        \/ Return(c)
        \/ Forward(c)
        \/ Error(c)
        \/ Unlock(c)

SpecFlat == InitFlat /\ [][NextFlat]_vars

\* The steps of a handler that holds the lock: each is a call that returns
\* (client.Get within its timeout, time.Sleep, proxy.ServeHTTP) or plain
\* code.
Runs(c) ==
    \/ Select(c)
    \/ Advance(c)
    \/ HealthEntry(c)
    \/ Get(c)
    \/ Sleep(c)
    \/ Return(c)
    \/ Forward(c)
    \/ Error(c)
    \/ Unlock(c)

\* The flat shape when every goroutine is scheduled: a handler that can
\* take a step takes one, and a handler blocked in lb.mu.Lock() gets the
\* mutex if it is free again and again (sync.Mutex hands the lock to a
\* waiter that has starved).  Requests arrive as they please.
FairSpecFlat ==
    /\ InitFlat
    /\ [][NextFlat]_vars
    /\ \A c \in Conns : WF_vars(Runs(c)) /\ SF_vars(Lock(c))

(* ------------------------------------------------ the multi-group shape *)

\* type TargetGroup struct { URIPath; Servers }
TargetGroup(path, srvs) == [ URIPath |-> path, Servers |-> srvs ]

\* Faulty variant of the path match: the group's path as a prefix.
IsPrefix(a, b) == Len(a) <= Len(b) /\ SubSeq(b, 1, Len(a)) = a
PathMatchesPrefix(path, uri) == IsPrefix(uri, path)

\* r.URL.Path == targetGroup.URIPath
PathMatches(path, uri) == path = uri

\* getNextServer(targetGroup): nil for an empty group; otherwise the index is
\* computed afresh, len(Servers) % serverCount and then one more modulo
\* serverCount, and the server there is returned.  Nothing is stored.
getNextServer(targetGroup) ==
    LET serverCount == Len(targetGroup.Servers)
        targetGroupIndex == Len(targetGroup.Servers) % serverCount
    IN  IF serverCount = 0 THEN NilServer
        ELSE targetGroup.Servers[((targetGroupIndex + 1) % serverCount) + 1]

\* The hosts of the g-th configured group, in order.
GroupHosts(g, n) == [ k \in 1 .. n |-> Hosts[(g - 1) * MaxGroupServers + k] ]

\* The target group lists main may build: up to MaxGroups groups, each bound
\* to a path (two groups may name the same path) and holding up to
\* MaxGroupServers servers, every server with its own health check path.
GroupConfigs ==
    UNION { [ 1 .. m ->
                UNION { [ URIPath : Paths,
                          Servers : [ 1 .. n -> { "", "/health" } ] ]
                        : n \in 0 .. MaxGroupServers } ]
            : m \in 0 .. MaxGroups }

\* NewLoadBalancer(targetGroups) keeps the list as it is given.
NewGroupLoadBalancer(groups) == [ targetGroups |-> groups ]

InitGroups ==
    /\ shape = "groups"
    /\ \E cfg \in GroupConfigs :
         LET groups == [ g \in 1 .. Len(cfg) |->
                 TargetGroup(cfg[g].URIPath,
                     [ k \in 1 .. Len(cfg[g].Servers) |->
                         Server(GroupHosts(g, Len(cfg[g].Servers))[k],
                                cfg[g].Servers[k]) ]) ]
             hosts == UNION { { groups[g].Servers[k].URL :
                                  k \in 1 .. Len(groups[g].Servers) } :
                              g \in 1 .. Len(groups) }
         IN  /\ targetGroups = NewGroupLoadBalancer(groups).targetGroups
             /\ health \in [ hosts -> { "up", "down" } ]
    /\ servers = << >>
    /\ index = 0
    /\ InitCommon

ArriveGroups(c) == shape = "groups" /\ Accept(c, Paths, MaxGroupRequests)

\* Multi-group shape, the head of the loop over lb.targetGroups: a group
\* whose URIPath is the request's path gives its next server, and a server
\* that is not nil is probed; any other group is passed over.  Past the last
\* group the loop falls out to http.Error.
Route(c) ==
    /\ shape = "groups"
    /\ pc[c] = "loop"
    /\ IF LoopContinues(i[c], Len(targetGroups))
       THEN LET targetGroup == targetGroups[i[c] + 1]
                next == getNextServer(targetGroup)
            IN  IF PathMatches(urlPath[c], targetGroup.URIPath)
                   /\ next # NilServer
                THEN /\ server' = [ server EXCEPT ![c] = next ]
                     /\ pc' = [ pc EXCEPT ![c] = "health" ]
                     /\ UNCHANGED i
                ELSE /\ i' = [ i EXCEPT ![c] = @ + 1 ]
                     /\ UNCHANGED << server, pc >>
       ELSE /\ pc' = [ pc EXCEPT ![c] = "error" ]
            /\ UNCHANGED << server, i >>
    /\ UNCHANGED << config, index, mu, retry, ok, urlPath, reqPath, start,
                    attempts, waits, probed, fwd, resp, log, nreq >>

\* Multi-group shape, isServerHealthy has returned: a healthy server gets
\* the request, its path rewritten; after an unhealthy one the loop goes on
\* to the next target group.
ReturnGroups(c) ==
    /\ shape = "groups"
    /\ pc[c] = "ret"
    /\ probed' = Verdict(c)
    /\ IF ok[c]
       THEN /\ urlPath' = [ urlPath EXCEPT ![c] = Sprintf(server[c].URL, @) ]
            /\ pc' = [ pc EXCEPT ![c] = "forward" ]
            /\ UNCHANGED i
       ELSE /\ i' = [ i EXCEPT ![c] = @ + 1 ]
            /\ pc' = [ pc EXCEPT ![c] = "loop" ]
            /\ UNCHANGED urlPath
    /\ UNCHANGED << config, index, mu, server, retry, ok, reqPath, start,
                    attempts, waits, fwd, resp, log, nreq >>

\* What the log keeps of a finished request of the multi-group shape.
FinishedGroups(c) ==
    [ path   |-> reqPath[c],
      probed |-> [ k \in 1 .. Len(probed[c]) |-> probed[c][k].URL ],
      target |-> IF fwd[c] = << >> THEN "" ELSE fwd[c][1].URL,
      status |-> IF resp[c] = << >> THEN 0 ELSE resp[c][1].status ]

UnlockGroups(c) == shape = "groups" /\ Release(c, FinishedGroups(c))

NextGroups ==
    \E c \in Conns :
        \/ ArriveGroups(c)
        \/ Lock(c)
        \/ Route(c)
        \/ HealthEntry(c)
        \/ Get(c)
        \/ Sleep(c)
        \/ ReturnGroups(c)
        \/ Forward(c)
        \/ Error(c)
        \/ UnlockGroups(c)

SpecGroups == InitGroups /\ [][NextGroups]_vars

(* ------------------------------------------------------------ both shapes *)

Init == InitFlat \/ InitGroups

Next ==
    \E c \in Conns :
        \/ Arrive(c)
        \/ ArriveGroups(c)
        \/ Lock(c)
        \/ Select(c)
        \/ Advance(c)
        \/ Route(c)
        \/ HealthEntry(c)
        \/ Get(c)
        \/ Sleep(c)
        \/ Return(c)
        \/ ReturnGroups(c)
        \/ Forward(c)
        \/ Error(c)
        \/ Unlock(c)
        \/ UnlockGroups(c)

Spec == Init /\ [][Next]_vars

(* ================================================================ claims *)

\* The 503 that http.Error writes.
Unavailable ==
    [ status |-> 503, body |-> "No healthy backend servers available" ]

\* Every backend of the flat pool answers its probe: an empty health check
\* path, or a health endpoint that is always up.
AllHealthy ==
    \A k \in 1 .. Len(servers) :
        servers[k].healthCheckPath = "" \/ health[servers[k].URL] = "up"

\* The backend d rotation steps after cursor value idx.
Rotated(idx, d) == servers[((idx + d) % Len(servers)) + 1].URL

\* C1: flat shape, all backends healthy: counted from any finished request
\* (whatever the cursor was when it began), the following requests are
\* forwarded to the backends in configuration order from that cursor, so n
\* consecutive requests go to n distinct backends and the (n+1)-th goes to
\* the backend of the first.
C1_FlatRoundRobin ==
    (shape = "flat" /\ Len(servers) >= 1 /\ AllHealthy) =>
        \A a \in 1 .. Len(log) : \A b \in a .. Len(log) :
            /\ log[b].target = Rotated(log[a].start, b - a)
            /\ (0 < b - a /\ b - a < Len(servers))
                   => log[b].target # log[a].target
            /\ (b - a = Len(servers)) => log[b].target = log[a].target

\* Two probed backends, both up: the second request went to the other
\* backend and the third has come back to the backend of the first.
C1_Witness ==
    /\ shape = "flat"
    /\ Len(servers) = 2
    /\ AllHealthy
    /\ servers[1].healthCheckPath = "/health"
    /\ Len(log) = 3
    /\ log[2].target # log[1].target
    /\ log[3].target = log[1].target

\* A step in which connection c selects a candidate in the flat ServeHTTP.
Selects(c) == pc[c] = "advance" /\ pc'[c] = "health"

\* C3: flat shape, non-empty server list: 0 <= index < len(servers) in every
\* reachable state; every selection of a candidate sets index to
\* (index + 1) mod len(servers), and no other step changes index.
C3_IndexDiscipline ==
    /\ [](Len(servers) >= 1 => index \in 0 .. Len(servers) - 1)
    /\ [][ IF \E c \in Conns : Selects(c)
           THEN index' = (index + 1) % Len(servers)
           ELSE index' = index ]_vars

\* A selection of the last of two servers has wrapped index around to 0.
C3_Witness ==
    /\ shape = "flat"
    /\ Len(servers) = 2
    /\ index = 0
    /\ \E c \in Conns : pc[c] = "health" /\ server[c] = servers[2]

\* Every backend of the flat pool was probed in c's request and found
\* unhealthy.
EveryBackendFailed(c) ==
    \A k \in 1 .. Len(servers) :
        \E j \in 1 .. Len(probed[c]) :
            /\ probed[c][j].URL = servers[k].URL
            /\ probed[c][j].verdict = "unhealthy"

\* Every backend of the flat pool was probed exactly once in c's request,
\* nothing else was, and every verdict was unhealthy.
EachProbedOnceUnhealthy(c) ==
    /\ Len(probed[c]) = Len(servers)
    /\ \A k \in 1 .. Len(servers) :
           Cardinality({ j \in 1 .. Len(probed[c]) :
                           probed[c][j].URL = servers[k].URL }) = 1
    /\ \A j \in 1 .. Len(probed[c]) : probed[c][j].verdict = "unhealthy"

\* C4: flat shape: a request in which every backend failed its probe ends
\* with one 503 "No healthy backend servers available" and no call of the
\* forwarder; and a 503 is written only after every backend has been probed
\* once in the request and found unhealthy.
C4_Exhaustion ==
    shape = "flat" =>
        \A c \in Conns :
            /\ (pc[c] = "unlock" /\ EveryBackendFailed(c)) =>
                   /\ resp[c] = << Unavailable >>
                   /\ fwd[c] = << >>
            /\ resp[c] # << >> =>
                   /\ resp[c] = << Unavailable >>
                   /\ fwd[c] = << >>
                   /\ EachProbedOnceUnhealthy(c)

\* A request that found both backends of a pool unhealthy and wrote the
\* 503.
C4_Witness ==
    /\ shape = "flat"
    /\ Len(servers) = 2
    /\ \E c \in Conns :
           pc[c] = "unlock" /\ resp[c] # << >> /\ Len(probed[c]) = 2

\* A server that answers its probe: no health check path, or always up.
Healthy(srv) == srv.healthCheckPath = "" \/ health[srv.URL] = "up"

\* The URLs of a target group's servers.
GroupURLs(tg) == { tg.Servers[k].URL : k \in 1 .. Len(tg.Servers) }

\* The groups bound to path p, and the first of them (0 if there is none).
Matching(p) == { g \in 1 .. Len(targetGroups) : targetGroups[g].URIPath = p }
FirstMatch(p) ==
    IF Matching(p) = { } THEN 0
    ELSE CHOOSE g \in Matching(p) : \A h \in Matching(p) : g <= h

\* The finished requests for path p, in order.
RequestsTo(p) == SelectSeq(log, LAMBDA e : e.path = p)

\* C2: multi-group shape: for the group that serves a path, with n >= 2
\* servers that are all healthy, two consecutive requests for the path are
\* forwarded to different servers, and n consecutive requests for the path
\* are forwarded to every server of the group.
C2_GroupRotation ==
    shape = "groups" =>
        \A g \in 1 .. Len(targetGroups) :
            LET tg   == targetGroups[g]
                n    == Len(tg.Servers)
                reqs == RequestsTo(tg.URIPath)
            IN  ( /\ n >= 2
                  /\ g = FirstMatch(tg.URIPath)
                  /\ \A k \in 1 .. n : Healthy(tg.Servers[k]) ) =>
                    /\ \A a \in 1 .. Len(reqs) - 1 :
                           reqs[a].target # reqs[a + 1].target
                    /\ \A a \in 1 .. Len(reqs) - n + 1 :
                           { reqs[b].target : b \in a .. a + n - 1 }
                               = GroupURLs(tg)

\* C5: multi-group shape: a finished request whose path has a target group
\* was forwarded if some server of the first such group is healthy, and got
\* a 503 only if every server of that group was probed in the request and
\* found unhealthy.
C5_GroupExhaustion ==
    shape = "groups" =>
        \A c \in Conns :
            (pc[c] = "unlock" /\ FirstMatch(reqPath[c]) # 0) =>
                LET tg == targetGroups[FirstMatch(reqPath[c])]
                IN  /\ (\E k \in 1 .. Len(tg.Servers) : Healthy(tg.Servers[k]))
                           => fwd[c] # << >>
                    /\ resp[c] # << >> =>
                           \A k \in 1 .. Len(tg.Servers) :
                               \E j \in 1 .. Len(probed[c]) :
                                   /\ probed[c][j].URL = tg.Servers[k].URL
                                   /\ probed[c][j].verdict = "unhealthy"

\* C6: multi-group shape: whatever a request probes or is forwarded to is a
\* server of the first target group bound to the request's path; no later
\* group with the same path is consulted.
C6_FirstMatchWins ==
    shape = "groups" =>
        \A c \in Conns :
            /\ \A j \in 1 .. Len(probed[c]) :
                   probed[c][j].at + 1 = FirstMatch(reqPath[c])
            /\ \A j \in 1 .. Len(fwd[c]) :
                   /\ FirstMatch(reqPath[c]) # 0
                   /\ fwd[c][j].URL
                          \in GroupURLs(targetGroups[FirstMatch(reqPath[c])])

\* C7: multi-group shape: a request is probed against and forwarded to
\* servers of target groups bound to exactly its path only, and a request
\* for a path no group is bound to ends with the 503 written once, no probe
\* and no call of the forwarder.
C7_ExactPathRouting ==
    shape = "groups" =>
        \A c \in Conns :
            /\ \A j \in 1 .. Len(probed[c]) :
                   /\ targetGroups[probed[c][j].at + 1].URIPath = reqPath[c]
                   /\ probed[c][j].URL
                          \in GroupURLs(targetGroups[probed[c][j].at + 1])
            /\ \A j \in 1 .. Len(fwd[c]) :
                   \A g \in 1 .. Len(targetGroups) :
                       fwd[c][j].URL \in GroupURLs(targetGroups[g])
                           => targetGroups[g].URIPath = reqPath[c]
            /\ (pc[c] = "unlock" /\ Matching(reqPath[c]) = { }) =>
                   /\ resp[c] = << Unavailable >>
                   /\ probed[c] = << >>
                   /\ fwd[c] = << >>

\* After a request for /app1 was forwarded, a request for /app1/x, which no
\* group is bound to, has ended in the 503.
C7_Witness ==
    /\ shape = "groups"
    /\ Len(log) = 1
    /\ log[1].path = << "app1" >>
    /\ log[1].target # ""
    /\ \E c \in Conns :
           /\ pc[c] = "unlock"
           /\ reqPath[c] = << "app1", "x" >>
           /\ Matching(reqPath[c]) = { }
           /\ resp[c] = << Unavailable >>

\* A GET that completed without transport error with status 200.
Succeeded(res) == res.err = FALSE /\ res.status = 200

\* C8: isServerHealthy on a server with a health check path makes between 1
\* and 3 GET attempts; no attempt follows a successful one; it returns true
\* exactly when its last attempt succeeded and false exactly when 3
\* attempts were made and all failed; a server whose health endpoint always
\* fails is attempted 3 times.
C8_RetryBound ==
    \A c \in Conns :
        ( /\ pc[c] \in { "get", "sleep", "ret" }
          /\ server[c].healthCheckPath # "" ) =>
            /\ Len(attempts[c]) <= 3
            /\ \A k \in 1 .. Len(attempts[c]) - 1 : ~Succeeded(attempts[c][k])
            /\ pc[c] = "ret" =>
                   /\ Len(attempts[c]) >= 1
                   /\ ok[c] <=> Succeeded(attempts[c][Len(attempts[c])])
                   /\ ~ok[c] <=>
                          /\ Len(attempts[c]) = 3
                          /\ \A k \in 1 .. 3 : ~Succeeded(attempts[c][k])
                   /\ health[server[c].URL] = "down" =>
                          Len(attempts[c]) = 3 /\ ~ok[c]

\* A probe of a server that is down has returned false after 3 attempts.
C8_Witness ==
    \E c \in Conns :
        /\ pc[c] = "ret"
        /\ server[c].healthCheckPath # ""
        /\ health[server[c].URL] = "down"
        /\ Len(attempts[c]) = 3
        /\ ~ok[c]

\* The configured servers of either shape.
AllServers ==
    { servers[k] : k \in 1 .. Len(servers) }
        \cup UNION { { targetGroups[g].Servers[k] :
                         k \in 1 .. Len(targetGroups[g].Servers) } :
                     g \in 1 .. Len(targetGroups) }

\* The server at url is configured with an empty health check path.
EmptyPath(url) ==
    \E srv \in AllServers : srv.URL = url /\ srv.healthCheckPath = ""

\* C9: a probe of a server with an empty health check path returns true
\* with no GET attempt and no wait, and a request that has reached such a
\* server is forwarded to it, whatever the server's health endpoint does.
C9_NoHealthCheck ==
    \A c \in Conns :
        /\ (pc[c] = "ret" /\ server[c].healthCheckPath = "") =>
               ok[c] /\ attempts[c] = << >> /\ waits[c] = 0
        /\ \A j \in 1 .. Len(probed[c]) :
               EmptyPath(probed[c][j].URL) =>
                   /\ probed[c][j].verdict # "unhealthy"
                   /\ j = Len(probed[c])
                   /\ pc[c] = "unlock" =>
                          /\ Len(fwd[c]) = 1
                          /\ fwd[c][1].URL = probed[c][j].URL
                          /\ resp[c] = << >>

\* A request was forwarded to a server with no health check path whose
\* health endpoint is down.
C9_Witness ==
    \E c \in Conns :
        /\ pc[c] = "unlock"
        /\ Len(fwd[c]) = 1
        /\ EmptyPath(fwd[c][1].URL)
        /\ health[fwd[c][1].URL] = "down"

\* Between lb.mu.Lock() and the handler's return.
Inside(c) ==
    pc[c] \in { "loop", "advance", "health", "get", "sleep", "ret", "forward",
                "error", "unlock" }

\* C10: at most one request is between taking the lock and its terminal
\* outcome, and while one is there no other request gets inside, starts a
\* probe, forwards or writes a 503, and only the one inside moves index.
C10_Serialized ==
    /\ [](\A c, d \in Conns : (Inside(c) /\ Inside(d)) => c = d)
    /\ [][ \A c \in Conns : Inside(c) =>
             /\ \A d \in Conns \ { c } :
                    /\ pc'[d] \in { "idle", "lock" }
                    /\ probed'[d] = probed[d]
                    /\ attempts'[d] = attempts[d]
                    /\ fwd'[d] = fwd[d]
                    /\ resp'[d] = resp[d]
             /\ index' # index => pc'[c] # pc[c] ]_vars

\* One request sleeps between two attempts of a probe while another waits
\* for the lock.
C10_Witness ==
    \E c, d \in Conns :
        /\ c # d
        /\ mu = c
        /\ pc[c] = "sleep"
        /\ pc[d] = "lock"

\* The scenario's load balancer: the pool [A, B] with a health check path,
\* A's health endpoint always up and B's always down.
ScenarioAB ==
    /\ shape = "flat"
    /\ Len(servers) = 2
    /\ servers[1].healthCheckPath # ""
    /\ health[servers[1].URL] = "up"
    /\ health[servers[2].URL] = "down"

\* C11: flat shape, pool [A, B] with a health check path, A healthy, B down,
\* cursor at A: the first request probes A only and is forwarded to A; the
\* second probes B, whose probe makes exactly 3 attempts that all fail,
\* then A, and is forwarded to A; neither ends in 503.
C11_ScenarioAB ==
    ScenarioAB =>
        /\ Len(log) >= 1 =>
               log[1] = [ start  |-> 0,
                          probed |-> << servers[1].URL >>,
                          target |-> servers[1].URL,
                          status |-> 0 ]
        /\ Len(log) >= 2 =>
               log[2] = [ start  |-> 1,
                          probed |-> << servers[2].URL, servers[1].URL >>,
                          target |-> servers[1].URL,
                          status |-> 0 ]
        /\ \A c \in Conns :
               (pc[c] = "ret" /\ server[c] = servers[2]) =>
                   /\ ~ok[c]
                   /\ Len(attempts[c]) = 3
                   /\ \A k \in 1 .. 3 : ~Succeeded(attempts[c][k])

\* Both requests of the scenario have finished.
C11_Witness ==
    /\ ScenarioAB
    /\ Len(log) = 2
    /\ log[2].probed = << servers[2].URL, servers[1].URL >>

\* The positions of c's request at which a probe returned true.
HealthyAt(c) ==
    { j \in 1 .. Len(probed[c]) : probed[c][j].verdict = "healthy" }

\* What a flat request that began at cursor value s comes to, given the
\* verdicts of its own probes: the backend at the first position whose
\* probe returned true, or the 503 when there is none.
Outcome(c, s) ==
    IF HealthyAt(c) = { }
    THEN [ target |-> "", status |-> StatusServiceUnavailable ]
    ELSE LET j == CHOOSE m \in HealthyAt(c) : \A q \in HealthyAt(c) : m <= q
         IN  [ target |-> Rotated(s, j - 1), status |-> 0 ]

\* C12: flat shape: no health result is remembered: a backend that failed
\* its probe in an earlier request is probed again in full when a later
\* request reaches it (at least one GET, false only after 3 failed GETs,
\* true exactly when the last GET succeeded) and is forwarded to when that
\* probe returns true; what a request comes to is determined by the cursor
\* value at its start and the verdicts of its own probes.
C12_NothingRemembered ==
    shape = "flat" =>
        \A c \in Conns :
            /\ ( /\ pc[c] \in { "ret", "forward" }
                 /\ server[c].healthCheckPath # ""
                 /\ FailedBefore(server[c].URL) ) =>
                   /\ Len(attempts[c]) >= 1
                   /\ ok[c] <=> Succeeded(attempts[c][Len(attempts[c])])
                   /\ ~ok[c] =>
                          /\ Len(attempts[c]) = maxRetries
                          /\ \A k \in 1 .. maxRetries :
                                 ~Succeeded(attempts[c][k])
                   /\ pc[c] = "forward" => ok[c]
            /\ pc[c] = "unlock" =>
                   /\ Finished(c).target = Outcome(c, start[c]).target
                   /\ Finished(c).status = Outcome(c, start[c]).status

\* A request was forwarded to a backend that had failed its probe in an
\* earlier request, after a probe of 2 GETs in this one.
C12_Witness ==
    \E c \in Conns :
        /\ shape = "flat"
        /\ pc[c] = "unlock"
        /\ Len(fwd[c]) = 1
        /\ FailedBefore(fwd[c][1].URL)
        /\ Len(attempts[c]) = 2

\* No pool of the configuration is empty: the flat server list has a
\* server, and so has every target group.
NoEmptyPool ==
    /\ shape = "flat" => Len(servers) >= 1
    /\ shape = "groups" =>
           \A g \in 1 .. Len(targetGroups) :
               Len(targetGroups[g].Servers) >= 1

\* C13: a load balancer with an empty pool (flat: no server; multi-group:
\* a target group without servers) does not come to serve: no request is
\* ever inside ServeHTTP of a load balancer that has an empty pool.
C13_NoEmptyPoolServed ==
    \A c \in Conns : Inside(c) => NoEmptyPool

\* C14: flat shape: one request selects at most len(servers) candidates
\* and probes no backend twice; its j-th candidate is the backend j - 1
\* rotation steps after the cursor value held when it began; every
\* candidate but the last was found unhealthy, and a forwarded request went
\* to its last candidate, whose probe returned true: the first healthy one
\* in rotation order, with none probed after it.
C14_FirstHealthyInRotation ==
    shape = "flat" =>
        \A c \in Conns :
            /\ Len(probed[c]) <= Len(servers)
            /\ \A j \in 1 .. Len(probed[c]) :
                   /\ probed[c][j].URL = Rotated(start[c], j - 1)
                   /\ probed[c][j].at = j - 1
                   /\ j < Len(probed[c]) => probed[c][j].verdict = "unhealthy"
                   /\ \A k \in 1 .. Len(probed[c]) :
                          probed[c][k].URL = probed[c][j].URL => k = j
            /\ (pc[c] = "forward" \/ fwd[c] # << >>) =>
                   /\ probed[c][Len(probed[c])].verdict = "healthy"
                   /\ server[c].URL = probed[c][Len(probed[c])].URL
            /\ fwd[c] # << >> =>
                   /\ Len(fwd[c]) = 1
                   /\ fwd[c][1].URL = probed[c][Len(probed[c])].URL

\* A request that began at the second of two backends found it unhealthy,
\* went round to the first and was forwarded there.
C14_Witness ==
    \E c \in Conns :
        /\ shape = "flat"
        /\ Len(servers) = 2
        /\ pc[c] = "unlock"
        /\ start[c] = 1
        /\ Len(probed[c]) = 2
        /\ probed[c][1].verdict = "unhealthy"
        /\ Len(fwd[c]) = 1
        /\ fwd[c][1].URL = servers[1].URL

\* C15: in isServerHealthy a wait comes only between a failed attempt and
\* the next attempt: after a wait the retry loop makes another GET, so a
\* probe that has returned false after 3 failed attempts has waited exactly
\* 2 times, and any probe that has returned has waited one time less than
\* it has made attempts.
C15_WaitOnlyBetweenAttempts ==
    \A c \in Conns :
        server[c].healthCheckPath # "" =>
            /\ (pc[c] = "get" /\ waits[c] > 0) => RetryContinues(retry[c])
            /\ pc[c] = "ret" => waits[c] = Len(attempts[c]) - 1
            /\ (pc[c] = "ret" /\ ~ok[c]) => waits[c] = 2

\* The terminal outcomes request c has had so far: calls of the forwarder
\* and 503 responses written.
Outcomes(c) == Len(fwd[c]) + Len(resp[c])

\* C16: a request has exactly one terminal outcome: never more than one of
\* forwarder call and 503 write, and exactly one when its handler returns
\* (so every finished request was either forwarded or answered 503, not
\* both); once the forwarder has been called the handler is at its return,
\* and whether the backend answered or the transport failed the request
\* moves index no more, starts no probe, and writes no 503.
C16_OneTerminalOutcome ==
    /\ [](\A c \in Conns :
            /\ Outcomes(c) <= 1
            /\ pc[c] = "unlock" <=> Outcomes(c) = 1
            /\ fwd[c] # << >> => fwd[c][1].result \in { "answered", "failed" })
    /\ [](\A k \in 1 .. Len(log) :
            (log[k].target = "") <=> (log[k].status = StatusServiceUnavailable))
    /\ [][ \A c \in Conns : fwd[c] # << >> =>
             /\ index' = index
             /\ Len(probed'[c]) <= Len(probed[c])
             /\ attempts'[c] \in { attempts[c], << >> }
             /\ resp'[c] = << >>
             /\ Len(fwd'[c]) <= 1
             /\ pc'[c] \in { "unlock", "idle" } ]_vars

\* A request whose forwarder call failed in transport is at its return,
\* with one forwarder call and no 503.
C16_Witness ==
    \E c \in Conns :
        /\ pc[c] = "unlock"
        /\ Len(fwd[c]) = 1
        /\ fwd[c][1].result = "failed"
        /\ resp[c] = << >>

\* C17: flat shape, every call returns and the lock is granted fairly: a
\* request makes at most len(servers) probes of at most 3 GETs each, a
\* request waiting for the lock gets to its terminal outcome (forwarder
\* call or 503), the handler then returns, and the mutex is held exactly by
\* the request inside: it is free again after either outcome.
C17_Termination ==
    /\ [](\A c \in Conns :
            /\ Len(probed[c]) <= Len(servers)
            /\ Len(attempts[c]) <= maxRetries
            /\ mu = c <=> Inside(c))
    /\ \A c \in Conns : (pc[c] = "lock") ~> (pc[c] = "unlock" /\ Outcomes(c) = 1)
    /\ \A c \in Conns : (pc[c] = "unlock") ~> (pc[c] = "idle" /\ mu # c)
    /\ (mu # 0) ~> (mu = 0)

\* A request that waited got the lock after an earlier one had ended in
\* 503, probed its way through the pool and was forwarded, while one more
\* waits for the lock.
C17_Witness ==
    \E c, d \in Conns :
        /\ shape = "flat"
        /\ mu = c
        /\ pc[c] = "unlock"
        /\ Len(probed[c]) = Len(servers)
        /\ Len(fwd[c]) = 1
        /\ pc[d] = "lock"
        /\ \E k \in 1 .. Len(log) : log[k].status = StatusServiceUnavailable

\* Request c has read index for a candidate and not yet advanced it.
HasReadCursor(c) == pc[c] = "advance"

\* C18: flat shape, n always-healthy backends, requests arriving in any
\* interleaving: no two requests have read the cursor without an advance in
\* between; the k-th request to finish began at cursor value
\* (k - 1) mod n, counted from the initial cursor 0, and was forwarded to
\* the backend at that rotation position, as k sequential requests would
\* be; and when no request is inside, index = k mod n for the k finished
\* requests: the cursor has advanced by exactly k.
C18_NoLostCursorUpdate ==
    (shape = "flat" /\ Len(servers) >= 1 /\ AllHealthy) =>
        /\ \A c, d \in Conns :
               (HasReadCursor(c) /\ HasReadCursor(d)) => c = d
        /\ \A k \in 1 .. Len(log) :
               /\ log[k].start = (k - 1) % Len(servers)
               /\ log[k].target = Rotated(0, k - 1)
               /\ log[k].probed = << log[k].target >>
        /\ (\A c \in Conns : ~Inside(c)) => index = Len(log) % Len(servers)
        /\ \A c \in Conns :
               pc[c] \in { "health", "get", "sleep", "ret", "forward", "unlock" }
                   => /\ start[c] = Len(log) % Len(servers)
                      /\ index = (Len(log) + 1) % Len(servers)

\* Two requests are in flight at once against two healthy backends after
\* a first one has finished: one has read the cursor, the other is blocked
\* in Lock.
C18_Witness ==
    \E c, d \in Conns :
        /\ shape = "flat"
        /\ Len(servers) = 2
        /\ AllHealthy
        /\ Len(log) = 1
        /\ HasReadCursor(c)
        /\ pc[d] = "lock"

\* C19: r.URL.Path is rewritten only for the forward, once: a request about
\* to be forwarded, or forwarded, has the path "/" + host of the chosen
\* backend + P, P being the path it arrived with, and that is the path the
\* forwarder got; until then, through every probed and skipped candidate,
\* and in a request that ends in 503, the path is P.
C19_PathRewrite ==
    \A c \in Conns :
        /\ pc[c] = "forward" =>
               urlPath[c] = << server[c].URL >> \o reqPath[c]
        /\ fwd[c] # << >> =>
               /\ fwd[c][1].path = << fwd[c][1].URL >> \o reqPath[c]
               /\ urlPath[c] = fwd[c][1].path
               /\ fwd[c][1].URL = probed[c][Len(probed[c])].URL
        /\ (pc[c] # "forward" /\ fwd[c] = << >>) => urlPath[c] = reqPath[c]
        /\ resp[c] # << >> => urlPath[c] = reqPath[c]

\* A request for /app1/x was forwarded to the second backend it probed,
\* the first one skipped.
C19_Witness ==
    \E c \in Conns :
        /\ pc[c] = "unlock"
        /\ reqPath[c] = << "app1", "x" >>
        /\ Len(probed[c]) = 2
        /\ probed[c][1].verdict = "unhealthy"
        /\ Len(fwd[c]) = 1
        /\ fwd[c][1].path = << probed[c][2].URL, "app1", "x" >>

\* The position in the flat server list of the backend at url.
PositionOf(url) == CHOOSE k \in 1 .. Len(servers) : servers[k].URL = url

\* C20: flat shape: when a request's handler returns, index is the value
\* it had when the request began plus the number of candidates the request
\* probed, mod len(servers); so after a forward index points at the
\* successor of the backend forwarded to, and after a 503 (every backend
\* probed once) index is back at the value the request began with.
C20_CursorAtCompletion ==
    (shape = "flat" /\ Len(servers) >= 1) =>
        \A c \in Conns :
            pc[c] = "unlock" =>
                /\ index = (start[c] + Len(probed[c])) % Len(servers)
                /\ fwd[c] # << >> =>
                       /\ index = PositionOf(fwd[c][1].URL) % Len(servers)
                       /\ servers[index + 1].URL = Rotated(start[c], Len(probed[c]))
                /\ resp[c] # << >> =>
                       /\ Len(probed[c]) = Len(servers)
                       /\ index = start[c]

\* A request that began at the second of two backends, found both
\* unhealthy and wrote the 503 leaves index at the second backend.
C20_Witness ==
    \E c \in Conns :
        /\ shape = "flat"
        /\ Len(servers) = 2
        /\ pc[c] = "unlock"
        /\ start[c] = 1
        /\ resp[c] # << >>
        /\ index = 1

====
